---- MODULE Spec2Model ----
(***************************************************************************)
(* Student marks dashboard (src/app.py): a script that is re-executed top  *)
(* to bottom on every user interaction.  One run = the form handler (at    *)
(* most one add_mark), then fetch_all, the filters, the aggregation, the   *)
(* trend and the CSV export.                                               *)
(*                                                                         *)
(* Representation.                                                         *)
(*  - The store is a function from document ids to documents; a document   *)
(*    is a record that may lack fields (Firestore is schemaless).          *)
(*  - df, filtered are sequences of rows (records with the six columns).   *)
(*  - A date is a triple <<year, month, day>>; the stored value is the     *)
(*    ISO string date.isoformat() builds from it.                          *)
(*  - Aggregation results are kept in hundredths (value * 100), which is   *)
(*    what .round(2) leaves.                                               *)
(*  - A CSV file is a sequence of lines, each a sequence of cell texts;    *)
(*    the quoting of delimiters inside a cell is not modelled.             *)
(***************************************************************************)
EXTENDS Integers, Sequences, FiniteSets, TLC

VARIABLES
    store,          \* collection "students": document id -> document
    submitted,      \* st.form_submit_button result of the last run
    form,           \* the form widgets' values in the last run
    notice,         \* what the form handler showed: "none" | "warning" | "success"
    df,             \* fetch_all() of the last run
    subj_option,    \* the entry picked in the list "Filter by Subject"
    student_option, \* the entry picked in the list "Filter by Student"
    subj_filter,    \* what selectbox "Filter by Subject" returned
    student_filter, \* what selectbox "Filter by Student" returned
    agg_choice,     \* selectbox "Aggregate"
    status,         \* dashboard branch: "info" | "warning" | "ok"
    filtered,       \* rows left after the filters
    result_series,  \* subject -> aggregate in hundredths (status = "ok" only)
    trend_shown,    \* whether the trend chart was drawn
    trend,          \* the trend chart's points
    csv,            \* the text handed to the download button, <<>> if none
    raised,         \* whether the run raised a Python exception
    ipc,            \* several instances: each instance's position in its run
    idf,            \* several instances: the df of each instance's run
    accepted        \* several instances: how often each valid form was submitted

vars == <<store, submitted, form, notice, df, subj_option, student_option,
          subj_filter, student_filter,
          agg_choice, status, filtered, result_series, trend_shown, trend,
          csv, raised, ipc, idf, accepted>>

single == <<submitted, form, notice, df, subj_option, student_option,
            subj_filter, student_filter,
            agg_choice, status, filtered, result_series, trend_shown, trend,
            csv, raised>>

multi == <<ipc, idf, accepted>>

(***************************************************************************)
(* Bounds                                                                  *)
(***************************************************************************)
MaxRecords == 2

NumInstances == 2

(***************************************************************************)
(* Values                                                                  *)
(***************************************************************************)
Columns == <<"id", "name", "student_id", "subject", "marks", "date">>

TextColumns == {"id", "name", "student_id", "subject", "date"}

AggKinds == {"Average", "Max", "Min", "Count"}

MinMarks == 0

MaxMarks == 100

Dates == {<<2024, 1, 1>>, <<2024, 1, 15>>, <<2024, 2, 1>>}

Today == <<2024, 2, 1>>

NaT == <<0, 0, 0>>

Pad2(n) == IF n < 10 THEN "0" \o ToString(n) ELSE ToString(n)

\* date.isoformat()
IsoFormat(d) == ToString(d[1]) \o "-" \o Pad2(d[2]) \o "-" \o Pad2(d[3])

\* The strings date_input can lead to, each with the date it denotes.
IsoStrings == {IsoFormat(d) : d \in Dates}

ParseIso == [s \in IsoStrings |-> CHOOSE d \in Dates : IsoFormat(d) = s]

\* pd.to_datetime on one cell: the date an ISO string denotes, NaT for "".
ToDatetime(s) == IF s \in IsoStrings THEN ParseIso[s] ELSE NaT

TupleLess(a, b) ==
    \/ a[1] < b[1]
    \/ a[1] = b[1] /\ a[2] < b[2]
    \/ a[1] = b[1] /\ a[2] = b[2] /\ a[3] < b[3]

\* Python's < on the strings of the date column: an ISO date string sorts as
\* the date it denotes, and "" sorts before every one of them.
DateStrLess(s, t) == TupleLess(ToDatetime(s), ToDatetime(t))

\* Mutant: a number input without bounds.
NumberInputUnbounded(raw) == raw

\* st.number_input(min_value=0, max_value=100): the widget keeps the value
\* inside its bounds whatever is typed.
NumberInput(raw) ==
    IF raw < MinMarks THEN MinMarks ELSE IF raw > MaxMarks THEN MaxMarks ELSE raw

\* What a user may type into the form before pressing "Add Record".
Submissions ==
    { [name |-> "Alice", student_id |-> "",   subject |-> "Math", raw |-> 80,  date |-> <<2024, 1, 1>>],
      [name |-> "Alice", student_id |-> "",   subject |-> "Math", raw |-> 90,  date |-> <<2024, 2, 1>>],
      [name |-> "Bob",   student_id |-> "7",  subject |-> "Math", raw |-> 70,  date |-> <<2024, 1, 15>>],
      [name |-> "All",   student_id |-> "S4", subject |-> "All",  raw |-> 150, date |-> <<2024, 1, 15>>],
      [name |-> "Bob",   student_id |-> "7",  subject |-> "Art",  raw |-> -5,  date |-> <<2024, 1, 1>>],
      [name |-> "",      student_id |-> "",   subject |-> "Math", raw |-> 50,  date |-> <<2024, 1, 1>>],
      [name |-> "Bob",   student_id |-> "",   subject |-> "",     raw |-> 50,  date |-> <<2024, 2, 1>>] }

\* The widgets' values of a run in which nothing was typed.
BlankForm ==
    [name |-> "", student_id |-> "", subject |-> "", marks |-> 0, date |-> Today]

FormOf(e) ==
    [name |-> e.name, student_id |-> e.student_id, subject |-> e.subject,
     marks |-> NumberInput(e.raw), date |-> e.date]

\* Mutant: only the name is required.
RejectedNameOnly(f) == f.name = ""

\* if not name or not subject (line 88)
Rejected(f) == f.name = "" \/ f.subject = ""

ValidForms == {FormOf(e) : e \in {x \in Submissions : ~Rejected(FormOf(x))}}

(***************************************************************************)
(* The store                                                               *)
(***************************************************************************)
Ids == 1 .. MaxRecords

\* The id of a document that is in the collection before the first run.
PriorId == 0

IdStr(i) == "d" \o ToString(i)

EmptyStore == [i \in {} |-> [name |-> ""]]

\* A document some other tool left in the collection, with fields missing.
LegacyStore == [i \in {PriorId} |-> [name |-> "Bob", subject |-> "Math"]]

\* A document an earlier session of the dashboard wrote.
SeededStore ==
    [i \in {PriorId} |->
        [name |-> "Bob", student_id |-> "7", subject |-> "Math", marks |-> 70,
         date |-> IsoFormat(<<2024, 1, 15>>)]]

\* Mutant: the new document's id may be one already in use.
AutoIdsReused(st) == Ids

\* db.collection("students").document(): an id no document has yet.
AutoIds(st) == Ids \ DOMAIN st

\* Mutant: the write replaces the collection by the new document.
add_mark_alone(st, id, name, student_id, subject, marks, date_str) ==
    [i \in {id} |->
        [name |-> name, student_id |-> student_id, subject |-> subject,
         marks |-> marks, date |-> date_str]]

\* Mutant: the student id is stored in place of the name.
add_mark_misfiled(st, id, name, student_id, subject, marks, date_str) ==
    [i \in DOMAIN st \cup {id} |->
        IF i = id
        THEN [name |-> student_id, student_id |-> name, subject |-> subject,
              marks |-> marks, date |-> date_str]
        ELSE st[i]]

\* add_mark: one set() of a whole document under a fresh id.
add_mark(st, id, name, student_id, subject, marks, date_str) ==
    [i \in DOMAIN st \cup {id} |->
        IF i = id
        THEN [name |-> name, student_id |-> student_id, subject |-> subject,
              marks |-> marks, date |-> date_str]
        ELSE st[i]]

Get(data, k, default) == IF k \in DOMAIN data THEN data[k] ELSE default

RowOf(st, i) ==
    [id         |-> IdStr(i),
     name       |-> Get(st[i], "name", ""),
     student_id |-> Get(st[i], "student_id", ""),
     subject    |-> Get(st[i], "subject", ""),
     marks      |-> Get(st[i], "marks", 0),
     date       |-> Get(st[i], "date", "")]

RECURSIVE StreamFrom(_, _)
StreamFrom(st, ids) ==
    IF ids = {} THEN <<>>
    ELSE LET i == CHOOSE j \in ids : \A k \in ids : j <= k
         IN  <<RowOf(st, i)>> \o StreamFrom(st, ids \ {i})

\* fetch_all: every document of the collection, in document-id order.
fetch_all(st) == StreamFrom(st, DOMAIN st)

(***************************************************************************)
(* Filters                                                                 *)
(***************************************************************************)
ColumnValues(rows, col) == {rows[i][col] : i \in 1 .. Len(rows)}

\* options=["All"] + sorted(df[col].unique().tolist()): the first entry of the
\* list, then one entry per value of the column.
FirstOption == <<"first">>

ValueOption(v) == <<"value", v>>

SelectOptions(rows, col) ==
    {FirstOption} \cup {ValueOption(v) : v \in ColumnValues(rows, col)}

\* st.selectbox returns the text of the picked entry.
Selectbox(o) == IF o = FirstOption THEN "All" ELSE o[2]

FilterSubject(rows, sf) ==
    IF sf # "All" THEN SelectSeq(rows, LAMBDA r : r.subject = sf) ELSE rows

FilterStudent(rows, tf) ==
    IF tf # "All" THEN SelectSeq(rows, LAMBDA r : r.name = tf) ELSE rows

ApplyFilters(rows, sf, tf) == FilterStudent(FilterSubject(rows, sf), tf)

\* filtered.empty
IsEmpty(rows) == Len(rows) = 0

(***************************************************************************)
(* Aggregation                                                             *)
(***************************************************************************)
GroupMarks(rows, s) ==
    LET g == SelectSeq(rows, LAMBDA r : r.subject = s)
    IN  [i \in 1 .. Len(g) |-> g[i].marks]

RECURSIVE SeqSum(_)
SeqSum(q) == IF q = <<>> THEN 0 ELSE Head(q) + SeqSum(Tail(q))

SeqMax(q) == CHOOSE m \in {q[i] : i \in 1 .. Len(q)} : \A i \in 1 .. Len(q) : q[i] <= m

SeqMin(q) == CHOOSE m \in {q[i] : i \in 1 .. Len(q)} : \A i \in 1 .. Len(q) : m <= q[i]

\* Mutant: the average is the sum, never divided.
ReduceSum(kind, q) ==
    CASE kind = "Average" -> <<SeqSum(q), 1>>
      [] kind = "Max"     -> <<SeqMax(q), 1>>
      [] kind = "Min"     -> <<SeqMin(q), 1>>
      [] kind = "Count"   -> <<Len(q), 1>>

\* One group's reduction as an exact fraction <<numerator, denominator>>.
Reduce(kind, q) ==
    CASE kind = "Average" -> <<SeqSum(q), Len(q)>>
      [] kind = "Max"     -> <<SeqMax(q), 1>>
      [] kind = "Min"     -> <<SeqMin(q), 1>>
      [] kind = "Count"   -> <<Len(q), 1>>

\* .round(2): the fraction in hundredths, a tie going to the even neighbour.
Round2(f) ==
    LET n == 100 * f[1]
        q == n \div f[2]
        r == n % f[2]
    IN  IF 2 * r < f[2] THEN q
        ELSE IF 2 * r > f[2] THEN q + 1
        ELSE IF q % 2 = 0 THEN q ELSE q + 1

\* agg_map[agg_choice].round(2): one entry per subject of the filtered rows.
Aggregate(rows, kind) ==
    [s \in ColumnValues(rows, "subject") |-> Round2(Reduce(kind, GroupMarks(rows, s)))]

(***************************************************************************)
(* Trend                                                                   *)
(***************************************************************************)
\* Mutant: the rows are not ordered by date, only reversed.
InsertFirst(r, q) == <<r>> \o q

\* Insert row r into the date-sorted sequence q, after the rows whose date is
\* not greater (sort_values keeps rows of equal date in their order here:
\* the sort falls back to insertion sort below 16 rows).
RECURSIVE InsertByDate(_, _)
InsertByDate(r, q) ==
    IF q = <<>> THEN <<r>>
    ELSE IF DateStrLess(r.date, Head(q).date) THEN <<r>> \o q
    ELSE <<Head(q)>> \o InsertByDate(r, Tail(q))

RECURSIVE SortByDate(_)
SortByDate(rows) ==
    IF rows = <<>> THEN <<>>
    ELSE InsertByDate(rows[Len(rows)], SortByDate(SubSeq(rows, 1, Len(rows) - 1)))

\* trend = filtered.sort_values("date"); trend['date'] = pd.to_datetime(...);
\* the chart plots (date, marks).
Trend(rows) ==
    LET t == SortByDate(rows)
    IN  [i \in 1 .. Len(t) |-> [date |-> ToDatetime(t[i].date), marks |-> t[i].marks]]

(***************************************************************************)
(* CSV                                                                     *)
(***************************************************************************)
\* Mutant: the name and subject cells are exchanged.
CsvLineExchanged(r) ==
    <<r.id, r.subject, r.student_id, r.name, ToString(r.marks), r.date>>

CsvLine(r) == <<r.id, r.name, r.student_id, r.subject, ToString(r.marks), r.date>>

\* df.to_csv(index=False): the header line, then one line per row; a cell is
\* the text of its value.
to_csv(rows) == <<Columns>> \o [i \in 1 .. Len(rows) |-> CsvLine(rows[i])]

\* The export is offered only when df is not empty.
Export(rows) == IF IsEmpty(rows) THEN <<>> ELSE to_csv(rows)

\* The texts pandas.read_csv takes for a missing value.
NaValues ==
    {"", "#N/A", "#N/A N/A", "#NA", "-1.#IND", "-1.#QNAN", "-NaN", "-nan",
     "1.#IND", "1.#QNAN", "<NA>", "N/A", "NA", "NULL", "NaN", "None", "n/a",
     "nan", "null"}

\* The texts read as a truth value.
BoolTexts == {"True", "TRUE", "true", "False", "FALSE", "false"}

\* The texts read as a number (those of the numbers this model stores), each
\* with its number.
NumTexts == {ToString(n) : n \in 0 .. MaxMarks}

ParseNum == [t \in NumTexts |-> CHOOSE n \in 0 .. MaxMarks : ToString(n) = t]

IsNumText(t) == t \in NumTexts

NumOf(t) == ParseNum[t]

StrCell(s) == [t |-> "str", v |-> s]

NumCell(n) == [t |-> "num", v |-> n]

BoolCell(b) == [t |-> "bool", v |-> b]

NaNCell == [t |-> "nan", v |-> 0]

\* pandas.read_csv on the exported text: the first line names the columns; a
\* cell holding a missing-value text is NaN; a column whose other cells are
\* all numbers is numeric, one whose cells are all truth values is boolean,
\* any other column keeps its texts.
read_csv(text) ==
    LET header == text[1]
        n == Len(text) - 1
        present(j) == {i \in 1 .. n : text[i + 1][j] \notin NaValues}
        numeric(j) == \A i \in present(j) : IsNumText(text[i + 1][j])
        boolean(j) == \A i \in 1 .. n : text[i + 1][j] \in BoolTexts
        cell(i, j) ==
            IF text[i + 1][j] \in NaValues THEN NaNCell
            ELSE IF numeric(j) THEN NumCell(NumOf(text[i + 1][j]))
            ELSE IF boolean(j) THEN BoolCell(text[i + 1][j] \in {"True", "TRUE", "true"})
            ELSE StrCell(text[i + 1][j])
    IN  [i \in 1 .. n |->
            [c \in {header[j] : j \in 1 .. Len(header)} |->
                cell(i, CHOOSE j \in 1 .. Len(header) : header[j] = c)]]

\* The in-memory table with each cell's pandas type made explicit.
Typed(rows) ==
    [i \in 1 .. Len(rows) |->
        [c \in {Columns[j] : j \in 1 .. Len(Columns)} |->
            IF c = "marks" THEN NumCell(rows[i][c]) ELSE StrCell(rows[i][c])]]

(***************************************************************************)
(* One run of the dashboard part of the script (lines 97-165)              *)
(***************************************************************************)
\* Mutant: the filtered rows are never tested for emptiness.
BranchUnchecked(d, f) == IF IsEmpty(d) THEN "info" ELSE "ok"

\* df.empty / filtered.empty decide the branch (lines 100, 124).
Branch(d, f) ==
    IF IsEmpty(d) THEN "info" ELSE IF IsEmpty(f) THEN "warning" ELSE "ok"

Render(st, so, to, ag) ==
    /\ subj_option' = so
    /\ student_option' = to
    /\ subj_filter' = Selectbox(so)
    /\ student_filter' = Selectbox(to)
    /\ agg_choice' = ag
    /\ df' = fetch_all(st)
    /\ filtered' = IF IsEmpty(df') THEN <<>>
                    ELSE ApplyFilters(df', subj_filter', student_filter')
    /\ status' = Branch(df', filtered')
    /\ result_series' = IF status' = "ok" THEN Aggregate(filtered', ag) ELSE <<>>
    /\ trend_shown' = (status' = "ok" /\ student_filter' # "All")
    /\ trend' = IF trend_shown' THEN Trend(filtered') ELSE <<>>
    /\ csv' = Export(df')
    \* result_series.plot(kind="bar") raises on a series with no entry
    /\ raised' = (status' = "ok" /\ Len(filtered') = 0)

\* The collection as the first run may find it.
InitialStores == {EmptyStore, LegacyStore, SeededStore}

Init ==
    /\ store \in InitialStores
    /\ submitted = FALSE
    /\ form = BlankForm
    /\ notice = "none"
    /\ subj_option = FirstOption
    /\ student_option = FirstOption
    /\ subj_filter = Selectbox(subj_option)
    /\ student_filter = Selectbox(student_option)
    /\ agg_choice = "Average"
    /\ df = fetch_all(store)
    /\ filtered = df
    /\ status = Branch(df, filtered)
    /\ result_series = IF status = "ok" THEN Aggregate(filtered, "Average") ELSE <<>>
    /\ trend_shown = FALSE
    /\ trend = <<>>
    /\ csv = Export(df)
    /\ raised = FALSE
    /\ ipc = [i \in 1 .. NumInstances |-> "idle"]
    /\ idf = [i \in 1 .. NumInstances |-> <<>>]
    /\ accepted = [f \in ValidForms |-> 0]

\* "Add Record" pressed with e typed into the form (lines 86-92), then the
\* rest of the script.  The selectboxes keep their values (session state).
Submit(e) ==
    LET f == FormOf(e)
        date_str == IsoFormat(f.date)
    IN  /\ submitted' = TRUE
        /\ form' = f
        /\ \/ /\ Rejected(f)
              /\ notice' = "warning"
              /\ store' = store
           \/ /\ ~Rejected(f)
              /\ \E id \in AutoIds(store) :
                    store' = add_mark(store, id, f.name, f.student_id,
                                      f.subject, f.marks, date_str)
              /\ notice' = "success"
        /\ Render(store', subj_option, student_option, agg_choice)
        /\ UNCHANGED multi

\* A run no form submission started: the form shows nothing.
Rerun(so, to, ag) ==
    /\ ~IsEmpty(df)
    /\ submitted' = FALSE
    /\ form' = BlankForm
    /\ notice' = "none"
    /\ store' = store
    /\ Render(store, so, to, ag)
    /\ UNCHANGED multi

SelectSubject(o) == Rerun(o, student_option, agg_choice)

SelectStudent(o) == Rerun(subj_option, o, agg_choice)

SelectAggregate(k) == Rerun(subj_option, student_option, k)

Next ==
    \/ \E e \in Submissions : Submit(e)
    \/ \E o \in SelectOptions(df, "subject") : SelectSubject(o)
    \/ \E o \in SelectOptions(df, "name") : SelectStudent(o)
    \/ \E k \in AggKinds : SelectAggregate(k)

Spec == Init /\ [][Next]_vars

(***************************************************************************)
(* Several instances of the script against one collection.  A run of an    *)
(* instance is no longer one step: its store calls (the set() of add_mark, *)
(* the stream() of fetch_all) interleave with the other instances' calls.  *)
(***************************************************************************)
Instances == 1 .. NumInstances

SumOver(fn) ==
    LET RECURSIVE Sum(_)
        Sum(D) == IF D = {} THEN 0
                  ELSE LET x == CHOOSE y \in D : TRUE IN fn[x] + Sum(D \ {x})
    IN  Sum(DOMAIN fn)

\* Instance i's user presses "Add Record" with e typed into the form: a new
\* run of the script starts (its df is not bound yet) and runs up to the end
\* of the form handler, the warning or add_mark.
ISubmit(i, e) ==
    LET f == FormOf(e)
    IN  /\ ipc[i] = "idle"
        /\ \/ /\ Rejected(f)
              /\ store' = store
              /\ accepted' = accepted
           \/ /\ ~Rejected(f)
              /\ \E id \in AutoIds(store) :
                    store' = add_mark(store, id, f.name, f.student_id,
                                      f.subject, f.marks, IsoFormat(f.date))
              /\ accepted' = [accepted EXCEPT ![f] = @ + 1]
        /\ idf' = [idf EXCEPT ![i] = <<>>]
        /\ ipc' = [ipc EXCEPT ![i] = "read"]
        /\ UNCHANGED single

\* Instance i's fetch_all; the rest of its run touches no shared state.
IRead(i) ==
    /\ ipc[i] = "read"
    /\ idf' = [idf EXCEPT ![i] = fetch_all(store)]
    /\ ipc' = [ipc EXCEPT ![i] = "idle"]
    /\ UNCHANGED <<store, accepted>>
    /\ UNCHANGED single

MNext ==
    \/ \E i \in Instances, e \in Submissions : ISubmit(i, e)
    \/ \E i \in Instances : IRead(i)

SpecMulti == Init /\ [][MNext]_vars

(***************************************************************************)
(* Properties                                                              *)
(***************************************************************************)
RowIds(rows) == {rows[i].id : i \in 1 .. Len(rows)}

RemoveAt(q, k) == [i \in 1 .. Len(q) - 1 |-> IF i < k THEN q[i] ELSE q[i + 1]]

\* Row r holds exactly the values f of the form.
RowHoldsForm(r, f) ==
    /\ r.name = f.name
    /\ r.student_id = f.student_id
    /\ r.subject = f.subject
    /\ r.marks = f.marks
    /\ r.date = IsoFormat(f.date)

\* C1: a submission with a non-empty name, a non-empty subject and marks in
\* [0,100] is followed, in the same run, by a full read that returns the rows
\* read before plus exactly one new row, which holds the submitted name,
\* student_id, subject, marks and date and whose id no earlier row had.
WriteThenReadAddsOneRecord ==
    [][ (submitted' /\ form'.name # "" /\ form'.subject # ""
             /\ form'.marks \in 0 .. 100)
        => /\ Len(df') = Len(df) + 1
           /\ \E k \in 1 .. Len(df') :
                 /\ RowHoldsForm(df'[k], form')
                 /\ df'[k].id \notin RowIds(df)
                 /\ RemoveAt(df', k) = df ]_vars

\* C1 witness: a valid submission was just written next to earlier records.
ValidSubmissionAdded ==
    /\ submitted
    /\ notice = "success"
    /\ Len(df) >= 2
    /\ \E k \in 1 .. Len(df) : RowHoldsForm(df[k], form)

\* C2: a submission whose name or subject is empty leaves the stored records
\* exactly as they were (the count does not grow) and shows the warning, not
\* the success message.
EmptyFieldWritesNothing ==
    [][ (submitted' /\ (form'.name = "" \/ form'.subject = ""))
        => /\ store' = store
           /\ Len(df') = Len(df)
           /\ notice' = "warning" ]_vars

\* C2 witness: the warning is shown over a store that holds records.
WarningShown ==
    /\ submitted
    /\ form.name = "" \/ form.subject = ""
    /\ notice = "warning"
    /\ Len(df) >= 1

\* C6: the store is append-only: every step keeps every stored document
\* under its id with the same fields, and a run that submits nothing leaves
\* the store as it was.
StoreAppendOnly ==
    [][ /\ \A id \in DOMAIN store : id \in DOMAIN store' /\ store'[id] = store[id]
        /\ ~submitted' => store' = store ]_vars

\* C6 witness: records were added to an earlier one, then the dashboard was
\* re-rendered with a filter and the export offered.
StoreKeptThroughRenders ==
    /\ Cardinality(DOMAIN store) = MaxRecords + 1
    /\ ~submitted
    /\ subj_filter # "All"
    /\ csv # <<>>

\* C7: every document this application wrote (every document other than the
\* one the first run found) has a non-empty name, a non-empty subject and
\* integer marks between 0 and 100.
WrittenRecordsValid ==
    \A id \in DOMAIN store \ {PriorId} :
        /\ store[id].name # ""
        /\ store[id].subject # ""
        /\ store[id].marks \in 0 .. 100

\* C7 witness: starting from the empty store, a value typed above the range
\* and a value typed below it were both stored.
OutOfRangeTypedAndStored ==
    /\ PriorId \notin DOMAIN store
    /\ \E a, b \in DOMAIN store : store[a].marks = 100 /\ store[b].marks = 0

\* The indices of the filtered rows of subject s, and their marks.
GroupIndices(s) == {i \in 1 .. Len(filtered) : filtered[i].subject = s}

GroupValues(s) == {filtered[i].marks : i \in GroupIndices(s)}

\* C3: over a non-empty filtered set the result has exactly one entry per
\* distinct subject of the filtered set and, per subject group (values in
\* hundredths): the rounded Average lies between the least and the greatest
\* marks of the group, Count is the number of rows of the group, Max is at
\* least and Min at most every marks value of the group.
AggregatesWithinGroup ==
    Len(filtered) > 0 =>
        /\ DOMAIN result_series = {filtered[i].subject : i \in 1 .. Len(filtered)}
        /\ \A s \in DOMAIN result_series :
              /\ agg_choice = "Average" =>
                    /\ \E m \in GroupValues(s) : 100 * m <= result_series[s]
                    /\ \E m \in GroupValues(s) : result_series[s] <= 100 * m
                    /\ \A lo, hi \in GroupValues(s) :
                          (\A m \in GroupValues(s) : lo <= m /\ m <= hi)
                          => 100 * lo <= result_series[s] /\ result_series[s] <= 100 * hi
              /\ agg_choice = "Count" =>
                    result_series[s] = 100 * Cardinality(GroupIndices(s))
              /\ agg_choice = "Max" =>
                    \A m \in GroupValues(s) : result_series[s] >= 100 * m
              /\ agg_choice = "Min" =>
                    \A m \in GroupValues(s) : result_series[s] <= 100 * m

\* C3 witness: an average over a group of three rows that needs rounding.
RoundedAverageShown ==
    /\ status = "ok"
    /\ agg_choice = "Average"
    /\ \E s \in DOMAIN result_series :
          /\ Cardinality(GroupIndices(s)) >= 3
          /\ result_series[s] % 100 # 0

\* A subject no record has.
AbsentSubject == "Physics"

\* C4: whenever the filters leave no row, the run raises nothing, shows the
\* "no data" warning and produces neither an aggregation result nor a trend;
\* a subject value that is not in the data leaves no row and leads to the
\* same branch.
EmptyFilterResultIsNoData ==
    Len(df) > 0 =>
        /\ Len(filtered) = 0 =>
              /\ ~raised
              /\ status = "warning"
              /\ result_series = <<>>
              /\ ~trend_shown
              /\ trend = <<>>
        /\ AbsentSubject \notin ColumnValues(df, "subject")
        /\ ApplyFilters(df, AbsentSubject, student_filter) = <<>>
        /\ Branch(df, ApplyFilters(df, AbsentSubject, student_filter)) = "warning"

\* C4 witness: a subject and a student that both occur in the data, never in
\* the same record, are selected together.
DisjointFiltersSelected ==
    /\ subj_filter # "All"
    /\ student_filter # "All"
    /\ subj_filter \in ColumnValues(df, "subject")
    /\ student_filter \in ColumnValues(df, "name")
    /\ Len(filtered) = 0
    /\ status = "warning"

\* Column c of df holds only texts that read_csv keeps as texts.
TextSafe(c) ==
    /\ \A i \in 1 .. Len(df) : df[i][c] \notin NaValues
    /\ \E i \in 1 .. Len(df) : ~IsNumText(df[i][c])
    /\ \E i \in 1 .. Len(df) : df[i][c] \notin BoolTexts

AllEntryPicked ==
    subj_option = ValueOption("All") \/ student_option = ValueOption("All")

\* C8 as stated: the filtered rows are exactly the rows that match the picked
\* list entries: the subject of a picked subject entry, the name of a picked
\* student entry, and every row where the first entry (no filter) is picked.
FilterKeepsExactlyPickedRows ==
    Len(df) > 0 =>
        /\ \A i \in 1 .. Len(df) :
              /\ ValueOption(df[i].subject) \in SelectOptions(df, "subject")
              /\ ValueOption(df[i].name) \in SelectOptions(df, "name")
        /\ filtered =
              SelectSeq(df, LAMBDA r :
                  /\ subj_option = FirstOption \/ r.subject = subj_option[2]
                  /\ student_option = FirstOption \/ r.name = student_option[2])

\* The rows kept differ from the rows picked only when the entry of the
\* value "All" is picked (the selectbox then returns the text of the first
\* entry, and line 119 or 121 skips the filter).
FilterKeepsPickedRowsUnlessAll == ~AllEntryPicked => FilterKeepsExactlyPickedRows

\* The text of a chart date as the date column holds it.
DateText(d) == IF d = NaT THEN "" ELSE IsoFormat(d)

Orderings(n) ==
    {p \in [1 .. n -> 1 .. n] : \A i, j \in 1 .. n : p[i] = p[j] => i = j}

\* The rows of the spec's example, whatever their ids and student ids.
ExampleRecords ==
    {[name |-> "Alice", subject |-> "Math", marks |-> 80, date |-> "2024-01-01"],
     [name |-> "Alice", subject |-> "Math", marks |-> 90, date |-> "2024-02-01"],
     [name |-> "Bob",   subject |-> "Math", marks |-> 70, date |-> "2024-01-15"]}

Observation(r) ==
    [name |-> r.name, subject |-> r.subject, marks |-> r.marks, date |-> r.date]

ExampleLoaded ==
    /\ Len(df) = 3
    /\ {Observation(df[i]) : i \in 1 .. Len(df)} = ExampleRecords

\* C9: with a student filter and a non-empty filtered set the trend is drawn
\* and holds the (date, marks) pair of every filtered row, each row once, all
\* of the selected student, in non-decreasing date order (a row without a
\* date first); with no student filter there is no trend; on the example
\* records with student filter Alice the trend is
\* [(2024-01-01, 80), (2024-02-01, 90)].
TrendIsSortedStudentHistory ==
    /\ (student_filter # "All" /\ Len(filtered) > 0) =>
          /\ trend_shown
          /\ Len(trend) = Len(filtered)
          /\ \A i \in 1 .. Len(filtered) : filtered[i].name = student_filter
          /\ \E p \in Orderings(Len(filtered)) :
                \A i \in 1 .. Len(trend) :
                   /\ DateText(trend[i].date) = filtered[p[i]].date
                   /\ trend[i].marks = filtered[p[i]].marks
          /\ \A i, j \in 1 .. Len(trend) :
                i < j => ~TupleLess(trend[j].date, trend[i].date)
    /\ student_filter = "All" => ~trend_shown /\ trend = <<>>
    /\ (ExampleLoaded /\ student_filter = "Alice") =>
          trend = << [date |-> <<2024, 1, 1>>, marks |-> 80],
                     [date |-> <<2024, 2, 1>>, marks |-> 90] >>

\* C9 witness: the example records, read with the later Alice record first,
\* and Alice selected.
ExampleTrendShown ==
    /\ ExampleLoaded
    /\ student_filter = "Alice"
    /\ trend_shown
    /\ Len(filtered) = 2
    /\ filtered[1].date = "2024-02-01"

\* The document add_mark writes for form f.
DocOf(f) ==
    [name |-> f.name, student_id |-> f.student_id, subject |-> f.subject,
     marks |-> f.marks, date |-> IsoFormat(f.date)]

Written == DOMAIN store \ {PriorId}

\* C10: with several instances interleaving, each valid submission is one
\* stored document of its own (as many written documents hold a form's
\* values as that form was submitted, and there are no other written
\* documents), so the number of written documents is the number of valid
\* submissions; and every row a full read returned for a written document
\* holds all the values of one submitted form.
ConcurrentWritesAllKept ==
    /\ \A f \in DOMAIN accepted :
          Cardinality({id \in Written : store[id] = DocOf(f)}) = accepted[f]
    /\ \A id \in Written : \E f \in DOMAIN accepted : store[id] = DocOf(f)
    /\ Cardinality(Written) = SumOver(accepted)
    /\ \A i \in DOMAIN idf : \A k \in 1 .. Len(idf[i]) :
          idf[i][k].id # IdStr(PriorId)
              => \E f \in DOMAIN accepted :
                    accepted[f] > 0 /\ RowHoldsForm(idf[i][k], f)

\* C10 witness: two instances submitted the same form, the first read before
\* the second wrote, and both runs are over.
SameFormWrittenTwice ==
    /\ \E f \in DOMAIN accepted : accepted[f] = 2
    /\ \A i \in DOMAIN ipc : ipc[i] = "idle"
    /\ Cardinality(Written) = 2
    /\ \E i, j \in DOMAIN idf : Len(idf[i]) < Len(idf[j])

====
